---------------------------- MODULE Spec2Model ----------------------------
(***************************************************************************)
(* A model of sp24_hw08/iPython_release/demo_system_id.ipynb: the linear   *)
(* system identification notebook.  The notebook's functions are pure;     *)
(* the state of the model is the notebook's globals after each cell (call).*)
(*                                                                         *)
(* Numbers.  numpy floats are modelled by exact integers: a real is an Int,*)
(* a complex number is a pair <<re, im>> of Int (a Gaussian integer), and  *)
(* a quotient that need not be an integer (the result of np.linalg.lstsq   *)
(* or np.linalg.inv) is kept as a numerator matrix over one denominator.   *)
(* A vector is a sequence, a matrix a sequence of rows.                    *)
(***************************************************************************)
EXTENDS Integers, Sequences, FiniteSets, TLC

VARIABLES
    pc,                         \* which cell of the notebook ran last
    a_matrix, b_matrix,         \* the system handed to / returned by a call
    a_den, b_den,               \* its entries are a_matrix / a_den, b_matrix / b_den
    inpt, initial_state,        \* arguments of make_state_trace
    state_trace,                \* result of make_state_trace
    transformation_matrix,      \* argument of transform_state_trace
    transformed_state_trace,    \* result of transform_state_trace
    a_identified, b_identified, \* results of identify_system
    rs_args,                    \* arguments of make_random_system
    z_random,                   \* eigenvalues make_random_system drew
    eigvals,                    \* root list handed to make_ccf_... / roots2coeffs
    coeffs                      \* result of roots2coeffs

vars == <<pc, a_matrix, b_matrix, a_den, b_den, inpt, initial_state, state_trace,
          transformation_matrix, transformed_state_trace,
          a_identified, b_identified, rs_args, z_random, eigvals, coeffs>>

-----------------------------------------------------------------------------
(* Bounds of the model.                                                    *)

\* longest input sequence (n_timesteps) handed to make_state_trace
MaxT == 3

\* largest n_states asked of make_random_system
MaxStates == 3

\* np.random.rand draws are k / RandDen for k in 0 .. RandDen-1, so in [0, 1)
RandDen == 2

\* longest root list handed directly to roots2coeffs / make_ccf_system_from_eigenvalues
MaxRoots == 3

-----------------------------------------------------------------------------
(* Integer and complex arithmetic.                                         *)

RECURSIVE SumSeq(_)
SumSeq(s) == IF s = <<>> THEN 0 ELSE Head(s) + SumSeq(Tail(s))

RECURSIVE IntPow(_, _)
IntPow(b, e) == IF e = 0 THEN 1 ELSE b * IntPow(b, e - 1)

\* floor of the square root of a natural number
ISqrt(x) == CHOOSE r \in 0 .. x : r * r <= x /\ (r + 1) * (r + 1) > x

Cx(re, im) == <<re, im>>
CReal(z) == z[1]
CImag(z) == z[2]
CAdd(x, y) == <<x[1] + y[1], x[2] + y[2]>>
CMul(x, y) == <<x[1] * y[1] - x[2] * y[2], x[1] * y[2] + x[2] * y[1]>>
CScale(k, z) == <<k * z[1], k * z[2]>>
CConj(z) == <<z[1], -z[2]>>

RECURSIVE CSum(_)
CSum(s) == IF s = <<>> THEN Cx(0, 0) ELSE CAdd(Head(s), CSum(Tail(s)))

RECURSIVE CProd(_)
CProd(s) == IF s = <<>> THEN Cx(1, 0) ELSE CMul(Head(s), CProd(Tail(s)))

-----------------------------------------------------------------------------
(* Matrices over Int: the numpy operations the notebook uses.              *)

\* s itself, as a sequence whose entries TLC has evaluated (a function
\* written [i \in 1 .. n |-> e] is otherwise evaluated again at every use)
Vec(s) == s \o <<>>

NRows(M) == Len(M)
NCols(M) == IF M = <<>> THEN 0 ELSE Len(M[1])

Zeros(n) == Vec([i \in 1 .. n |-> 0])
Identity(n) == Vec([i \in 1 .. n |-> Vec([j \in 1 .. n |-> IF i = j THEN 1 ELSE 0])])

Dot(u, v) == SumSeq([k \in 1 .. Len(u) |-> u[k] * v[k]])

\* M @ x for a 2-D M and a 1-D x
MatVec(M, x) == Vec([i \in 1 .. Len(M) |-> Dot(M[i], x)])

\* M.T of a matrix with c columns
TransposeC(M, c) == Vec([j \in 1 .. c |-> Vec([i \in 1 .. Len(M) |-> M[i][j]])])
Transpose(M) == TransposeC(M, NCols(M))

\* P @ Q for 2-D P (r x k) and Q (k x c)
MatMulC(P, Q, c) ==
    Vec([i \in 1 .. Len(P) |-> Vec([j \in 1 .. c |->
        SumSeq([k \in 1 .. Len(Q) |-> P[i][k] * Q[k][j]])])])
MatMul(P, Q) == MatMulC(P, Q, NCols(Q))

MatScale(k, M) ==
    Vec([i \in 1 .. Len(M) |-> Vec([j \in 1 .. Len(M[i]) |-> k * M[i][j]])])

\* M without row i and column j
Minor(M, i, j) ==
    LET n == Len(M)
        keep(k, skip) == IF k < skip THEN k ELSE k + 1
    IN  Vec([r \in 1 .. n - 1 |-> Vec([c \in 1 .. n - 1 |-> M[keep(r, i)][keep(c, j)]])])

RECURSIVE Det(_)
Det(M) ==
    IF Len(M) = 0 THEN 1
    ELSE IF Len(M) = 1 THEN M[1][1]
    ELSE SumSeq([j \in 1 .. Len(M) |->
            (IF j % 2 = 1 THEN 1 ELSE -1) * M[1][j] * Det(Minor(M, 1, j))])

\* adjugate: Adj(M) @ M = Det(M) * I, so inv(M) = Adj(M) / Det(M)
Adj(M) ==
    Vec([i \in 1 .. Len(M) |-> Vec([j \in 1 .. Len(M) |->
        (IF (i + j) % 2 = 0 THEN 1 ELSE -1) * Det(Minor(M, j, i))])])


-----------------------------------------------------------------------------
(* numpy arrays with their shape, for the broadcasting in make_state_trace.*)
(* nd is the number of axes: 0 a scalar, 1 a vector, 2 a matrix; nd = -1   *)
(* stands for the ValueError numpy raises on shapes that do not broadcast. *)

Arr0(x) == [nd |-> 0, v |-> x]
Arr1(s) == [nd |-> 1, v |-> s]
Arr2(M) == [nd |-> 2, v |-> M]
ValueError == [nd |-> -1, v |-> <<>>]

Max2(x, y) == IF x >= y THEN x ELSE y

\* numpy's rule for one axis: equal lengths, or one of them 1
Compatible(x, y) == x = y \/ x = 1 \/ y = 1

\* index into an axis of length len that is broadcast when len = 1
Bx(len, k) == IF len = 1 THEN 1 ELSE k

\* b_matrix * inpt[i]: the elementwise (broadcast) product, u a vector
BroadcastMul(b, u) ==
    LET p == Len(u) IN
    IF b.nd = 1
    THEN LET r == Len(b.v) IN
         IF Compatible(r, p)
         THEN Arr1([k \in 1 .. Max2(r, p) |-> b.v[Bx(r, k)] * u[Bx(p, k)]])
         ELSE ValueError
    ELSE LET r == NRows(b.v)
             c == NCols(b.v)
         IN  IF Compatible(c, p)
             THEN Arr2([i \in 1 .. r |-> [j \in 1 .. Max2(c, p) |->
                        b.v[i][Bx(c, j)] * u[Bx(p, j)]]])
             ELSE ValueError

\* x.squeeze(): every axis of length 1 is removed
Squeeze(x) ==
    IF x.nd = 1
    THEN IF Len(x.v) = 1 THEN Arr0(x.v[1]) ELSE x
    ELSE IF x.nd = 2
    THEN LET r == NRows(x.v)
             c == NCols(x.v)
         IN  IF r = 1 /\ c = 1 THEN Arr0(x.v[1][1])
             ELSE IF r = 1 THEN Arr1(x.v[1])
             ELSE IF c = 1 THEN Arr1([i \in 1 .. r |-> x.v[i][1]])
             ELSE x
    ELSE x

\* y + x for a vector y and an array x, with broadcasting
BroadcastAdd(y, x) ==
    LET n == Len(y) IN
    IF x.nd = -1 THEN ValueError
    ELSE IF x.nd = 0 THEN Arr1([k \in 1 .. n |-> y[k] + x.v])
    ELSE IF x.nd = 1
    THEN LET m == Len(x.v) IN
         IF Compatible(n, m)
         THEN Arr1([k \in 1 .. Max2(n, m) |-> y[Bx(n, k)] + x.v[Bx(m, k)]])
         ELSE ValueError
    ELSE LET r == NRows(x.v)
             c == NCols(x.v)
         IN  IF Compatible(n, c)
             THEN Arr2([i \in 1 .. r |-> [j \in 1 .. Max2(n, c) |->
                        y[Bx(n, j)] + x.v[i][Bx(c, j)]]])
             ELSE ValueError

\* state_trace[i + 1] = val: val is broadcast into a row of n entries
\* (leading axes of length 1 are dropped); the result is that row
AssignRow(n, val) ==
    IF val.nd = -1 THEN ValueError
    ELSE IF val.nd = 0 THEN Arr1([k \in 1 .. n |-> val.v])
    ELSE IF val.nd = 1
    THEN LET m == Len(val.v) IN
         IF m = n \/ m = 1 THEN Arr1([k \in 1 .. n |-> val.v[Bx(m, k)]])
         ELSE ValueError
    ELSE LET r == NRows(val.v)
             c == NCols(val.v)
         IN  IF r = 1 /\ (c = n \/ c = 1)
             THEN Arr1([k \in 1 .. n |-> val.v[1][Bx(c, k)]])
             ELSE ValueError

-----------------------------------------------------------------------------
(* make_state_trace                                                        *)

\* a value that is None or an array
None == [given |-> FALSE, v |-> <<>>]
Some(x) == [given |-> TRUE, v |-> x]

\* the result of a call: rows of the returned array, or raised
Returned(rows) == [raised |-> FALSE, rows |-> rows, den |-> 1]
Raised == [raised |-> TRUE, rows |-> <<>>, den |-> 1]

\* one pass of the loop body: the row stored at state_trace[i + 1]
StepRow(a, b, u, x) ==
    AssignRow(Len(a), BroadcastAdd(MatVec(a, x), Squeeze(BroadcastMul(b, u))))

\* the loop "for i in range(n_timesteps)", from pass i with rows filled so far
RECURSIVE TraceLoop(_, _, _, _, _)
TraceLoop(a, b, u_seq, i, rows) ==
    IF i > Len(u_seq) THEN Returned(rows)
    ELSE LET row == StepRow(a, b, u_seq[i], rows[i]) IN
         IF row.nd = -1 THEN Raised
         ELSE TraceLoop(a, b, u_seq, i + 1, Append(rows, row.v))

make_state_trace(a, b, u_seq, x0) ==
    LET n_states == NRows(a)
        first == IF x0.given THEN x0.v ELSE Zeros(n_states)
    IN  TraceLoop(a, b, u_seq, 1, <<first>>)

-----------------------------------------------------------------------------
(* identify_system                                                         *)

\* np.linalg.lstsq(lsq_a, lsq_b): the least-squares solution.  With lsq_a of
\* full column rank it is the solution of the normal equations,
\*   (lsq_a.T lsq_a) W = lsq_a.T lsq_b,  W = Adj(G) lsq_a.T lsq_b / Det(G),
\* kept as numerators over the denominator Det(G).  With a rank-deficient
\* lsq_a numpy returns the minimum-norm solution, whose value is not modelled:
\* only the fact (full_rank = FALSE) is.
lstsq(lsq_a, lsq_b, m, n) ==
    LET at == TransposeC(lsq_a, m)
        g == MatMulC(at, lsq_a, m)
        d == Det(g)
    IN  IF d = 0
        THEN [full_rank |-> FALSE, num |-> <<>>, den |-> 0]
        ELSE [full_rank |-> TRUE,
              num |-> MatMulC(Adj(g), MatMulC(at, lsq_b, n), n),
              den |-> d]

\* identify_system with the targets not shifted by a step:
\* lsq_b = state_trace[:-1, :]
identify_system_unshifted(trace, u_seq) ==
    LET n_states == Len(trace.rows[1])
        n_inputs == IF u_seq = <<>> THEN 0 ELSE Len(u_seq[1])
        lsq_b == SubSeq(trace.rows, 1, Len(trace.rows) - 1)
        lsq_a == Vec([i \in 1 .. Len(u_seq) |->
                    trace.rows[i] \o [k \in 1 .. n_inputs |-> trace.den * u_seq[i][k]]])
        ab == lstsq(lsq_a, lsq_b, n_states + n_inputs, n_states)
    IN  IF ab.full_rank
        THEN [a |-> [full_rank |-> TRUE, num |-> SubSeq(ab.num, 1, n_states),
                     den |-> ab.den],
              b |-> [full_rank |-> TRUE,
                     num |-> SubSeq(ab.num, n_states + 1, n_states + n_inputs),
                     den |-> ab.den]]
        ELSE [a |-> ab, b |-> ab]

\* state_trace is rows / den (den = 1 unless a random transformation was
\* applied); a common factor 1/den of lsq_a and lsq_b leaves the solution
\* unchanged, so the numerators are used and inpt is scaled by den.
identify_system(trace, u_seq) ==
    LET n_states == Len(trace.rows[1])
        n_inputs == IF u_seq = <<>> THEN 0 ELSE Len(u_seq[1])
        lsq_b == Tail(trace.rows)
        lsq_a == Vec([i \in 1 .. Len(u_seq) |->
                    trace.rows[i] \o [k \in 1 .. n_inputs |-> trace.den * u_seq[i][k]]])
        ab == lstsq(lsq_a, lsq_b, n_states + n_inputs, n_states)
    IN  IF ab.full_rank
        THEN [a |-> [full_rank |-> TRUE, num |-> SubSeq(ab.num, 1, n_states),
                     den |-> ab.den],
              b |-> [full_rank |-> TRUE,
                     num |-> SubSeq(ab.num, n_states + 1, n_states + n_inputs),
                     den |-> ab.den]]
        ELSE [a |-> ab, b |-> ab]

-----------------------------------------------------------------------------
(* transform_state_trace                                                   *)

\* np.random.rand(n, n) + np.identity(n), times RandDen: the draws K[i][j]
\* are numerators over RandDen
RandPlusIdentity(K) ==
    Vec([i \in 1 .. Len(K) |-> Vec([j \in 1 .. Len(K) |->
        K[i][j] + (IF i = j THEN RandDen ELSE 0)])])

\* transform_state_trace with the transpose left out: state_trace @ t_mat
transform_state_trace_untransposed(trace, tm, K) ==
    LET n_states == Len(trace.rows[1]) IN
    IF tm.given
    THEN [raised |-> FALSE,
          rows |-> MatMulC(trace.rows, tm.v, n_states),
          den |-> trace.den]
    ELSE [raised |-> FALSE,
          rows |-> MatMulC(trace.rows, RandPlusIdentity(K), n_states),
          den |-> trace.den * RandDen]

\* state_trace @ t_mat.T; K is the draw used when no matrix is given
transform_state_trace(trace, tm, K) ==
    LET n_states == Len(trace.rows[1]) IN
    IF tm.given
    THEN [raised |-> FALSE,
          rows |-> MatMulC(trace.rows, TransposeC(tm.v, n_states), n_states),
          den |-> trace.den]
    ELSE [raised |-> FALSE,
          rows |-> MatMulC(trace.rows,
                           TransposeC(RandPlusIdentity(K), n_states), n_states),
          den |-> trace.den * RandDen]

-----------------------------------------------------------------------------
(* roots2coeffs                                                            *)

\* itertools.combinations(range(lo, n + 1), i): the index tuples, strictly
\* increasing, in lexicographic order
RECURSIVE CombinationsFrom(_, _, _)
CombinationsFrom(lo, n, i) ==
    IF i = 0 THEN <<<<>>>>
    ELSE IF n - lo + 1 < i THEN <<>>
    ELSE LET with == CombinationsFrom(lo + 1, n, i - 1)
             without == CombinationsFrom(lo + 1, n, i)
         IN  [k \in 1 .. Len(with) |-> <<lo>> \o with[k]] \o without

\* list(combinations(roots, i)): the tuples of roots, chosen by position
combinations(roots, i) ==
    LET idx == CombinationsFrom(1, Len(roots), i) IN
    Vec([k \in 1 .. Len(idx) |-> Vec([j \in 1 .. i |-> roots[idx[k][j]]])])

\* VietaCoeff with the sign taken from the index of coeffs: np.power(-1, i - 1)
VietaCoeffIndexSign(roots, i) ==
    LET a == combinations(roots, i)
        prods == Vec([k \in 1 .. Len(a) |-> CProd(a[k])])
    IN  CScale(IntPow(-1, i - 1), CSum(prods))

\* VietaCoeff with the sign np.power(-1, i) left out
VietaCoeffUnsigned(roots, i) ==
    LET a == combinations(roots, i)
        prods == Vec([k \in 1 .. Len(a) |-> CProd(a[k])])
    IN  CSum(prods)

\* the value stored in coeffs[i - 1]: np.power(-1, i) * np.sum(np.prod(a, axis=1))
VietaCoeff(roots, i) ==
    LET a == combinations(roots, i)
        prods == Vec([k \in 1 .. Len(a) |-> CProd(a[k])])
    IN  CScale(IntPow(-1, i), CSum(prods))

\* roots are complex (pairs); the result has len(roots) complex entries
roots2coeffs(roots) == Vec([i \in 1 .. Len(roots) |-> VietaCoeff(roots, i)])

-----------------------------------------------------------------------------
(* make_ccf_system_from_eigenvalues                                        *)

\* CcfEntry with the ones written at a_matrix[i + 1, i]
CcfEntrySubDiagonal(cs, n, r, c) ==
    IF r = n THEN -CReal(cs[n - c + 1])
    ELSE IF c = r - 1 THEN 1
    ELSE 0

\* CcfEntry with the coefficients of the last row in their own order:
\* a_matrix[n - 1, i] = -real(coeffs[i])
CcfEntryForwardCoeffs(cs, n, r, c) ==
    IF r = n THEN -CReal(cs[c])
    ELSE IF c = r + 1 THEN 1
    ELSE 0

\* the entry of a_matrix at row r, column c (from 1) once both loops have run:
\* a_matrix[i, i + 1] = 1 on the rows above the last, and on the last row
\* a_matrix[n - 1, n - 1 - i] = -real(coeffs[i])
CcfEntry(cs, n, r, c) ==
    IF r = n THEN -CReal(cs[n - c + 1])
    ELSE IF c = r + 1 THEN 1
    ELSE 0

\* CcfInput with the one written at b_matrix[0, 0]
CcfInputFirst(n) == [r \in 1 .. n |-> <<IF r = 1 THEN 1 ELSE 0>>]

\* b_matrix = zeros((n, 1)); b_matrix[n - 1, 0] = 1
CcfInput(n) == [r \in 1 .. n |-> <<IF r = n THEN 1 ELSE 0>>]

\* with an empty list, b_matrix[-1, 0] = 1 indexes an array with no rows:
\* IndexError
make_ccf_system_from_eigenvalues(ev) ==
    LET n_states == Len(ev)
        cs == roots2coeffs(ev)
    IN  IF n_states = 0
        THEN [raised |-> TRUE, a |-> <<>>, a_den |-> 1, b |-> <<>>, b_den |-> 1]
        ELSE [raised |-> FALSE,
              a |-> Vec([r \in 1 .. n_states |-> Vec([c \in 1 .. n_states |->
                        CcfEntry(cs, n_states, r, c)])]),
              a_den |-> 1,
              b |-> CcfInput(n_states),
              b_den |-> 1]

-----------------------------------------------------------------------------
(* make_random_system_from_eigenvalues                                     *)

\* the diagonal blocks: [[z]] for a real z, [[a, b], [-b, a]] for a complex z
DiagBlocks(eigvals_real, eigvals_complex) ==
    [k \in 1 .. Len(eigvals_real) |-> <<<<eigvals_real[k]>>>>] \o
    [k \in 1 .. Len(eigvals_complex) |->
        <<<<CReal(eigvals_complex[k]), CImag(eigvals_complex[k])>>,
          <<-CImag(eigvals_complex[k]), CReal(eigvals_complex[k])>>>>]

\* scipy.linalg.block_diag(*blocks): the rows of the blocks, padded with zeros
RECURSIVE block_diag(_)
block_diag(blocks) ==
    IF blocks = <<>> THEN <<>>
    ELSE LET first == Head(blocks)
             rest == block_diag(Tail(blocks))
             w == Len(first)
             wr == Len(rest)
         IN  [r \in 1 .. w |-> first[r] \o [c \in 1 .. wr |-> 0]] \o
             [r \in 1 .. wr |-> [c \in 1 .. w |-> 0] \o rest[r]]

\* K: the draws of t_mat's random part, kb: the draw filling b_matrix, both
\* numerators over RandDen.  With t = (K + RandDen I) / RandDen,
\* inv(t) @ mcf @ t = Adj(t') @ mcf @ t' / Det(t') for t' = K + RandDen I.
\* np.linalg.inv raises LinAlgError on a singular t_mat.
make_random_system_from_eigenvalues(eigvals_real, eigvals_complex, n_inputs, K, kb) ==
    LET n_states == Len(eigvals_real) + 2 * Len(eigvals_complex)
        mcf_mat == block_diag(DiagBlocks(eigvals_real, eigvals_complex))
        t_mat == RandPlusIdentity(K)
    IN  IF Det(t_mat) = 0
        THEN [raised |-> TRUE, a |-> <<>>, a_den |-> 1, b |-> <<>>, b_den |-> 1]
        ELSE [raised |-> FALSE,
              a |-> MatMulC(MatMulC(Adj(t_mat), mcf_mat, n_states), t_mat, n_states),
              a_den |-> Det(t_mat),
              b |-> Vec([r \in 1 .. n_states |-> Vec([c \in 1 .. n_inputs |-> kb])]),
              b_den |-> RandDen]

-----------------------------------------------------------------------------
(* make_random_system                                                      *)

\* np.size of a list
Size(list) == Len(list)

NRandom(args) ==
    args.n_states - Size(args.must_have_real_eigenvalues)
                  - 2 * Size(args.must_have_complex_eigenvalues)

\* AssertRandom with the comparison n_random >= 0
AssertRandomNonNegative(n_random) == n_random >= 0

\* assert n_random > 0, 'no random eigenvalues'
AssertRandom(n_random) == n_random > 0

\* n_random % 2
NReal(n_random) == n_random % 2

\* NConjPairs with the half rounded up
NConjPairsRoundedUp(n_random) == (n_random + 1) \div 2

\* int(np.floor(n_random / 2))
NConjPairs(n_random) == n_random \div 2

\* RandomMagnitude with the term z_min ** 2 left out
RandomMagnitudeFromZero(z_min, z_max, k) ==
    ISqrt((k * (z_max * z_max - z_min * z_min)) \div RandDen)

\* np.sqrt(z_min ** 2 + rand * (z_max ** 2 - z_min ** 2)) for the draw
\* rand = k / RandDen, rounded down to the integer grid of the model
RandomMagnitude(z_min, z_max, k) ==
    ISqrt((z_min * z_min * RandDen + k * (z_max * z_max - z_min * z_min))
          \div RandDen)

\* np.exp(1j * 2 * np.pi * rand) for the draws rand = q / 4: 1, i, -1, -i
UnitAtQuarterTurn(q) ==
    IF q = 0 THEN Cx(1, 0)
    ELSE IF q = 1 THEN Cx(0, 1)
    ELSE IF q = 2 THEN Cx(-1, 0)
    ELSE Cx(0, -1)

\* z_mags * np.exp(1j * z_angles)
RandomComplex(z_min, z_max, k, q) ==
    CScale(RandomMagnitude(z_min, z_max, k), UnitAtQuarterTurn(q))

\* z_min + rand * (z_max - z_min) for the draw rand = k / RandDen
RandomReal(z_min, z_max, k) == z_min + (k * (z_max - z_min)) \div RandDen

\* a real list as numpy concatenates it with complex values
AsComplex(reals) == [k \in 1 .. Len(reals) |-> Cx(reals[k], 0)]

\* the default of make_random_system_from_eigenvalues' n_inputs, which
\* make_random_system does not pass
DefaultNInputs == 1

\* mag_k, ang_q: the draws of each random pair; real_k: of the random real;
\* K, kb: of make_random_system_from_eigenvalues
make_random_system(args, mag_k, ang_q, real_k, K, kb) ==
    LET n_random == NRandom(args)
        z_random_complex ==
            Vec([j \in 1 .. NConjPairs(n_random) |->
                RandomComplex(args.z_min, args.z_max, mag_k[j], ang_q[j])])
        z_complex == z_random_complex \o args.must_have_complex_eigenvalues
        z_random_real ==
            Vec([j \in 1 .. NReal(n_random) |->
                RandomReal(args.z_min, args.z_max, real_k[j])])
        z_real == IF NReal(n_random) # 0
                  THEN args.must_have_real_eigenvalues \o z_random_real
                  ELSE args.must_have_real_eigenvalues
        z == z_complex \o AsComplex(z_real)
        drawn == [complex |-> z_random_complex, real |-> z_random_real]
    IN  IF ~AssertRandom(n_random)
        THEN [outcome |-> "AssertionError", drawn |-> <<>>, z |-> <<>>,
              coeffs |-> <<>>,
              sys |-> [raised |-> TRUE, a |-> <<>>, a_den |-> 1,
                       b |-> <<>>, b_den |-> 1]]
        ELSE IF args.ccf
        THEN [outcome |-> "returned", drawn |-> drawn, z |-> z,
              coeffs |-> roots2coeffs(z),
              sys |-> make_ccf_system_from_eigenvalues(z)]
        ELSE LET sys == make_random_system_from_eigenvalues(
                            z_real, z_complex, DefaultNInputs, K, kb)
             IN  [outcome |-> IF sys.raised THEN "LinAlgError" ELSE "returned",
                  drawn |-> drawn, z |-> <<>>, coeffs |-> <<>>, sys |-> sys]

-----------------------------------------------------------------------------
(* The inputs the cells are run with.                                      *)

\* known systems (a_known, b_known): b is 1-D as in the notebook's
\* np.array([0, 1]), or 2-D n x p; p is the input dimension
Systems ==
    << [a |-> <<<<2>>>>,                 b |-> Arr1(<<1>>),            p |-> 1],
       [a |-> <<<<-1>>>>,                b |-> Arr2(<<<<1>>>>),        p |-> 1],
       [a |-> <<<<0, 1>>, <<1, 1>>>>,    b |-> Arr1(<<0, 1>>),         p |-> 1],
       [a |-> <<<<0, 1>>, <<-1, 0>>>>,   b |-> Arr2(<<<<0>>, <<1>>>>), p |-> 1],
       [a |-> <<<<1, 2>>, <<0, -1>>>>,   b |-> Arr2(<<<<1>>, <<1>>>>), p |-> 1],
       [a |-> <<<<1, 1>>, <<0, 1>>>>,    b |-> Arr1(<<1, 0>>),         p |-> 1],
       [a |-> <<<<1>>>>,                 b |-> Arr2(<<<<1, 1>>>>),     p |-> 2],
       [a |-> <<<<0, 1>>, <<1, 0>>>>,    b |-> Arr2(<<<<1, 0>>, <<0, 1>>>>), p |-> 2],
       [a |-> <<<<0, 1, 0>>, <<0, 0, 1>>, <<1, 0, 0>>>>,
        b |-> Arr2(<<<<1, 0>>, <<0, 1>>, <<0, 0>>>>),                  p |-> 2] >>

\* the rows u[i] of an input sequence with p inputs
InputRows(p) ==
    IF p = 1 THEN {<<-1>>, <<0>>, <<1>>}
    ELSE {<<1, 0>>, <<0, 1>>, <<1, -1>>}

\* every sequence of 0 .. len elements of S
RECURSIVE SeqsUpTo(_, _)
SeqsUpTo(S, len) ==
    IF len = 0 THEN {<<>>}
    ELSE LET shorter == SeqsUpTo(S, len - 1) IN
         shorter \cup {Append(s, x) : s \in {t \in shorter : Len(t) = len - 1}, x \in S}

InputSeqs(p) == SeqsUpTo(InputRows(p), MaxT)

InitialStates(n) == {None, Some([k \in 1 .. n |-> 1])}

\* explicit transformation matrices: the notebook's t_mat, a shear, and a
\* singular one
Transforms(n) ==
    IF n = 1 THEN {<<<<2>>>>, <<<<0>>>>}
    ELSE IF n = 2 THEN {<<<<3, 1>>, <<5, 2>>>>, <<<<1, 1>>, <<0, 2>>>>,
                        <<<<1, 1>>, <<1, 1>>>>}
    ELSE {Identity(n)}

\* draws of np.random.rand(n, n), as numerators over RandDen: all zero, or
\* one entry 1 / RandDen in the leading 2 x 2 corner
RandMatrices(n) ==
    {Vec([i \in 1 .. n |-> Vec([j \in 1 .. n |-> 0])])} \cup
    {Vec([i \in 1 .. n |-> Vec([j \in 1 .. n |-> IF i = rc[1] /\ j = rc[2] THEN 1 ELSE 0])]) :
        rc \in {q \in {<<1, 1>>, <<1, 2>>, <<2, 1>>} : q[1] <= n /\ q[2] <= n}}

NotRun == [raised |-> FALSE, rows |-> <<>>, den |-> 1]
NotIdentified == [full_rank |-> FALSE, num |-> <<>>, den |-> 0]

-----------------------------------------------------------------------------
(* The state before any cell has run, and the notebook's examples 1 and 2  *)
(* as a state machine: make a trace, identify the system from it, or       *)
(* transform it and identify from that.                                    *)

otherVars == <<a_den, b_den, rs_args, z_random, eigvals, coeffs>>

Init ==
    /\ pc = "start"
    /\ a_matrix = <<>>
    /\ b_matrix = <<>>
    /\ a_den = 1
    /\ b_den = 1
    /\ inpt = <<>>
    /\ initial_state = None
    /\ state_trace = NotRun
    /\ transformation_matrix = None
    /\ transformed_state_trace = NotRun
    /\ a_identified = NotIdentified
    /\ b_identified = NotIdentified
    /\ rs_args = <<>>
    /\ z_random = <<>>
    /\ eigvals = <<>>
    /\ coeffs = <<>>

\* x_trace = make_state_trace(a_known, b_known, u_trace[, initial_state])
MakeStateTrace ==
    /\ pc = "start"
    /\ \E k \in 1 .. Len(Systems) :
         LET sys == Systems[k] IN
         \E u_seq \in InputSeqs(sys.p), x0 \in InitialStates(NRows(sys.a)) :
            \E res \in {make_state_trace(sys.a, sys.b, u_seq, x0)} :
            /\ a_matrix' = sys.a
            /\ b_matrix' = sys.b
            /\ inpt' = u_seq
            /\ initial_state' = x0
            /\ state_trace' = res
            /\ pc' = IF res.raised THEN "trace_raised" ELSE "traced"
    /\ UNCHANGED <<transformation_matrix, transformed_state_trace,
                   a_identified, b_identified, otherVars>>

\* a_identified, b_identified = identify_system(x_trace, u_trace)
IdentifySystem ==
    /\ pc = "traced"
    /\ \E res \in {identify_system(state_trace, inpt)} :
       /\ a_identified' = res.a
       /\ b_identified' = res.b
    /\ pc' = "identified"
    /\ UNCHANGED <<a_matrix, b_matrix, inpt, initial_state, state_trace,
                   transformation_matrix, transformed_state_trace, otherVars>>

\* tx_trace = transform_state_trace(x_trace[, t_mat])
TransformStateTrace ==
    /\ pc = "traced"
    /\ \E tm \in {None} \cup {Some(M) : M \in Transforms(NRows(a_matrix))} :
         \E K \in IF tm.given THEN {<<>>} ELSE RandMatrices(NRows(a_matrix)) :
            /\ transformation_matrix' = tm
            /\ transformed_state_trace' = transform_state_trace(state_trace, tm, K)
    /\ pc' = "transformed"
    /\ UNCHANGED <<a_matrix, b_matrix, inpt, initial_state, state_trace,
                   a_identified, b_identified, otherVars>>

\* a_identified, b_identified = identify_system(tx_trace, u_trace)
IdentifyTransformed ==
    /\ pc = "transformed"
    /\ \E res \in {identify_system(transformed_state_trace, inpt)} :
       /\ a_identified' = res.a
       /\ b_identified' = res.b
    /\ pc' = "identified_transformed"
    /\ UNCHANGED <<a_matrix, b_matrix, inpt, initial_state, state_trace,
                   transformation_matrix, transformed_state_trace, otherVars>>

NextTrace ==
    \/ MakeStateTrace
    \/ IdentifySystem
    \/ TransformStateTrace
    \/ IdentifyTransformed

SpecTrace == Init /\ [][NextTrace]_vars

-----------------------------------------------------------------------------
(* Calls of roots2coeffs and make_ccf_system_from_eigenvalues on a root    *)
(* list.                                                                   *)

RootVals == {Cx(1, 0), Cx(-1, 0), Cx(2, 0), Cx(3, 0), Cx(0, 1), Cx(0, -1), Cx(1, 2)}

RootLists == SeqsUpTo(RootVals, MaxRoots)

simVars == <<inpt, initial_state, state_trace, transformation_matrix,
             transformed_state_trace, a_identified, b_identified>>

\* coeffs = roots2coeffs(roots)
Roots2Coeffs ==
    /\ pc = "start"
    /\ \E roots \in RootLists :
         /\ eigvals' = roots
         /\ coeffs' = roots2coeffs(roots)
    /\ pc' = "coeffs"
    /\ UNCHANGED <<a_matrix, b_matrix, a_den, b_den, rs_args, z_random, simVars>>

\* a_matrix, b_matrix = make_ccf_system_from_eigenvalues(eigvals)
MakeCcfSystemFromEigenvalues ==
    /\ pc = "start"
    /\ \E ev \in RootLists :
         \E sys \in {make_ccf_system_from_eigenvalues(ev)} :
         /\ eigvals' = ev
         /\ coeffs' = roots2coeffs(ev)
         /\ a_matrix' = sys.a
         /\ a_den' = sys.a_den
         /\ b_matrix' = Arr2(sys.b)
         /\ b_den' = sys.b_den
         /\ pc' = IF sys.raised THEN "ccf_raised" ELSE "ccf"
    /\ UNCHANGED <<rs_args, z_random, simVars>>

NextPoly ==
    \/ Roots2Coeffs
    \/ MakeCcfSystemFromEigenvalues

SpecPoly == Init /\ [][NextPoly]_vars

-----------------------------------------------------------------------------
(* Calls of make_random_system.                                            *)

\* (z_min, z_max) with 0 <= z_min <= z_max
ZBounds == {<<0, 2>>, <<1, 3>>, <<2, 2>>}

MustHaveReal == {<<>>, <<-3>>, <<2, -3>>}

MustHaveComplex == {<<>>, <<Cx(1, 2)>>}

NInputs == {1, 2}

RsArgs ==
    [n_states : 1 .. MaxStates,
     n_inputs : NInputs,
     z_min : {zb[1] : zb \in ZBounds},
     z_max : {zb[2] : zb \in ZBounds},
     must_have_real_eigenvalues : MustHaveReal,
     must_have_complex_eigenvalues : MustHaveComplex,
     ccf : BOOLEAN]

\* the arguments of the call are chosen before it
InitRandom ==
    /\ pc = "start"
    /\ a_matrix = <<>>
    /\ b_matrix = <<>>
    /\ a_den = 1
    /\ b_den = 1
    /\ inpt = <<>>
    /\ initial_state = None
    /\ state_trace = NotRun
    /\ transformation_matrix = None
    /\ transformed_state_trace = NotRun
    /\ a_identified = NotIdentified
    /\ b_identified = NotIdentified
    /\ rs_args \in {r \in RsArgs : <<r.z_min, r.z_max>> \in ZBounds}
    /\ z_random = <<>>
    /\ eigvals = <<>>
    /\ coeffs = <<>>

\* a_rand, b_rand = make_random_system(n_states, n_inputs, z_min, z_max, ...)
MakeRandomSystem ==
    /\ pc = "start"
    /\ \E args \in {rs_args} :
         LET n_random == NRandom(args)
             pairs == IF AssertRandom(n_random) THEN NConjPairs(n_random) ELSE 0
             reals == IF AssertRandom(n_random) THEN NReal(n_random) ELSE 0
             general == AssertRandom(n_random) /\ ~args.ccf
         IN  \E mag_k \in [1 .. pairs -> 0 .. RandDen - 1],
                ang_q \in [1 .. pairs -> 0 .. 3],
                real_k \in [1 .. reals -> 0 .. RandDen - 1],
                K \in IF general THEN RandMatrices(args.n_states) ELSE {<<>>},
                kb \in IF general THEN 0 .. RandDen - 1 ELSE {0} :
                \E res \in {make_random_system(args, mag_k, ang_q, real_k, K, kb)} :
                /\ z_random' = res.drawn
                /\ eigvals' = res.z
                /\ coeffs' = res.coeffs
                /\ a_matrix' = res.sys.a
                /\ a_den' = res.sys.a_den
                /\ b_matrix' = Arr2(res.sys.b)
                /\ b_den' = res.sys.b_den
                /\ pc' = IF res.outcome = "AssertionError" THEN "assertion_error"
                         ELSE IF res.outcome = "LinAlgError" THEN "linalg_error"
                         ELSE "system_made"
    /\ UNCHANGED <<rs_args, simVars>>

NextRandom == MakeRandomSystem

SpecRandom == InitRandom /\ [][NextRandom]_vars

-----------------------------------------------------------------------------
(* Properties of the trajectory simulator and the least-squares identifier.*)

\* B as an n x p matrix: a 1-D b_matrix of n entries is the column n x 1
BColumns(b) == IF b.nd = 1 THEN [i \in 1 .. Len(b.v) |-> <<b.v[i]>>] ELSE b.v

VecAdd(x, y) == [k \in 1 .. Len(x) |-> x[k] + y[k]]

\* a quotient num / den equals the integer matrix M
RatEq(r, M) == r.num = MatScale(r.den, M)

\* C1: for every A (n x n), B (n x p, any p >= 1), input sequence U of length
\* T and optional initial state, make_state_trace returns T + 1 state vectors
\* of dimension n with X[0] the initial state (zero when none is given) and
\* X[i+1] = A X[i] + B U[i] (matrix-vector products) for every i in [0, T).
C1_TraceFollowsRecurrence ==
    pc \in {"traced", "trace_raised"} =>
        /\ ~state_trace.raised
        /\ Len(state_trace.rows) = Len(inpt) + 1
        /\ \A i \in 1 .. Len(state_trace.rows) :
              Len(state_trace.rows[i]) = NRows(a_matrix)
        /\ state_trace.rows[1] =
              (IF initial_state.given THEN initial_state.v
               ELSE Zeros(NRows(a_matrix)))
        /\ \A i \in 1 .. Len(inpt) :
              state_trace.rows[i + 1] =
                 VecAdd(MatVec(a_matrix, state_trace.rows[i]),
                        MatVec(BColumns(b_matrix), inpt[i]))

\* C2: round trip: from a noise-free trajectory of a known (A, B), made by
\* make_state_trace, whose regression design matrix has full column rank,
\* identify_system returns a_identified = A (n x n) and b_identified = B
\* (n x p).
C2_RoundTripReturnsAB ==
    (pc = "identified" /\ a_identified.full_rank) =>
        /\ RatEq(a_identified, a_matrix)
        /\ RatEq(b_identified, BColumns(b_matrix))

\* C3: similarity invariance: identify_system on transform_state_trace(X, T),
\* T invertible, X a noise-free trajectory of (A, B) with a full-rank
\* regression, returns a_identified = T A T^-1 and b_identified = T B.
\* (T^-1 = Adj(T) / Det(T), so the equation is cross-multiplied.)
C3_SimilarityReturnsTATinv ==
    (/\ pc = "identified_transformed"
     /\ transformation_matrix.given
     /\ Det(transformation_matrix.v) # 0
     /\ a_identified.full_rank) =>
        LET t == transformation_matrix.v IN
        /\ MatScale(Det(t), a_identified.num) =
              MatScale(a_identified.den, MatMul(MatMul(t, a_matrix), Adj(t)))
        /\ RatEq(b_identified, MatMul(t, BColumns(b_matrix)))

-----------------------------------------------------------------------------
(* Properties of the random system generator.                              *)

\* determinant of a matrix of complex entries
RECURSIVE CDet(_)
CDet(M) ==
    IF Len(M) = 0 THEN Cx(1, 0)
    ELSE IF Len(M) = 1 THEN M[1][1]
    ELSE CSum([j \in 1 .. Len(M) |->
            CScale(IF j % 2 = 1 THEN 1 ELSE -1,
                   CMul(M[1][j], CDet(Minor(M, 1, j))))])

\* z is an eigenvalue of the matrix num / den: det(num - z den I) = 0
IsEigenvalue(num, den, z) ==
    CDet(Vec([i \in 1 .. Len(num) |-> Vec([j \in 1 .. Len(num) |->
            IF i = j THEN CAdd(Cx(num[i][j], 0), CScale(-den, z))
            ELSE Cx(num[i][j], 0)])])) = Cx(0, 0)

MandatoryCount(args) ==
    Len(args.must_have_real_eigenvalues)
        + 2 * Len(args.must_have_complex_eigenvalues)

Abs(x) == IF x < 0 THEN -x ELSE x
CAbs2(z) == z[1] * z[1] + z[2] * z[2]

\* C4: for every valid call of make_random_system, ccf or not, the
\* eigenvalues of the returned state-transition matrix include every
\* mandatory real eigenvalue and, for every mandatory complex eigenvalue z,
\* both z and its conjugate.
C4_MandatoryEigenvaluesPresent ==
    pc = "system_made" =>
        /\ \A k \in 1 .. Len(rs_args.must_have_real_eigenvalues) :
              IsEigenvalue(a_matrix, a_den,
                           Cx(rs_args.must_have_real_eigenvalues[k], 0))
        /\ \A k \in 1 .. Len(rs_args.must_have_complex_eigenvalues) :
              /\ IsEigenvalue(a_matrix, a_den,
                              rs_args.must_have_complex_eigenvalues[k])
              /\ IsEigenvalue(a_matrix, a_den,
                              CConj(rs_args.must_have_complex_eigenvalues[k]))

\* C5: for every valid call of make_random_system(n_states, ...), ccf or
\* not, the returned state-transition matrix is n_states x n_states and the
\* returned input matrix has n_states rows.
C5_SystemHasRequestedDimension ==
    pc = "system_made" =>
        /\ NRows(a_matrix) = rs_args.n_states
        /\ \A i \in 1 .. NRows(a_matrix) : Len(a_matrix[i]) = rs_args.n_states
        /\ NRows(b_matrix.v) = rs_args.n_states

\* C6: in the general (ccf=False) form the returned input matrix is
\* n_states x n_inputs, for every n_inputs >= 1.
C6_InputMatrixHasRequestedColumns ==
    (pc = "system_made" /\ ~rs_args.ccf) =>
        /\ NRows(b_matrix.v) = rs_args.n_states
        /\ \A i \in 1 .. NRows(b_matrix.v) : Len(b_matrix.v[i]) = rs_args.n_inputs

C8_RandomMagnitudesInAnnulus ==
    (pc = "system_made" /\ 0 <= rs_args.z_min /\ rs_args.z_min <= rs_args.z_max) =>
        /\ \A j \in 1 .. Len(z_random.complex) :
              \A z \in {z_random.complex[j], CConj(z_random.complex[j])} :
                 /\ rs_args.z_min * rs_args.z_min <= CAbs2(z)
                 /\ CAbs2(z) <= rs_args.z_max * rs_args.z_max
        /\ \A j \in 1 .. Len(z_random.real) :
              /\ rs_args.z_min <= Abs(z_random.real[j])
              /\ Abs(z_random.real[j]) <= rs_args.z_max

\* a system with a random pair and a random real, drawn from an annulus
\* with a positive inner radius
C8_Witness ==
    /\ pc = "system_made"
    /\ rs_args.z_min > 0
    /\ rs_args.z_min < rs_args.z_max
    /\ Len(z_random.complex) >= 1
    /\ Len(z_random.real) = 1

-----------------------------------------------------------------------------
(* Properties of roots2coeffs and the canonical form.                      *)

\* the product of the roots at the positions in S
RECURSIVE ProductAt(_, _)
ProductAt(roots, S) ==
    IF S = {} THEN Cx(1, 0)
    ELSE LET k == CHOOSE k \in S : TRUE IN
         CMul(roots[k], ProductAt(roots, S \ {k}))

\* the sum, over the position sets in SS, of the product of their roots
RECURSIVE SumOfProducts(_, _)
SumOfProducts(roots, SS) ==
    IF SS = {} THEN Cx(0, 0)
    ELSE LET S == CHOOSE S \in SS : TRUE IN
         CAdd(ProductAt(roots, S), SumOfProducts(roots, SS \ {S}))

\* the i-element subsets of the positions 1 .. n
SubsetsOfSize(n, i) == {S \in SUBSET (1 .. n) : Cardinality(S) = i}

\* C9: for every list of n roots (repetitions allowed) roots2coeffs returns
\* n coefficients with a_i = (-1)^i times the sum, over the i-element subsets
\* of root positions, of the product of the roots in the subset; roots [2, 3]
\* give [-5, 6], roots [1, -1] give [0, -1], and the empty list gives the
\* empty list without error.
C9_Roots2CoeffsIsVieta ==
    pc = "coeffs" =>
        /\ Len(coeffs) = Len(eigvals)
        /\ \A i \in 1 .. Len(eigvals) :
              coeffs[i] =
                 CScale(IF i % 2 = 0 THEN 1 ELSE -1,
                        SumOfProducts(eigvals, SubsetsOfSize(Len(eigvals), i)))
        /\ (eigvals = <<Cx(2, 0), Cx(3, 0)>> => coeffs = <<Cx(-5, 0), Cx(6, 0)>>)
        /\ (eigvals = <<Cx(1, 0), Cx(-1, 0)>> => coeffs = <<Cx(0, 0), Cx(-1, 0)>>)
        /\ (eigvals = <<>> => coeffs = <<>>)

\* roots2coeffs has run on a list with a repeated root and a complex one
C9_Witness ==
    /\ pc = "coeffs"
    /\ Len(eigvals) = 3
    /\ eigvals[1] = eigvals[2]
    /\ CImag(eigvals[3]) # 0

\* C10, as stated: for every non-empty eigenvalue list the matrix returned by
\* make_ccf_system_from_eigenvalues has all sub-diagonal entries (row i+1,
\* column i) equal to 1.
C10_SubDiagonalOnes ==
    pc = "ccf" =>
        \A i \in 1 .. Len(eigvals) - 1 : a_matrix[i + 1][i] = 1

\* C10, amended: for every non-empty eigenvalue list the matrix returned by
\* make_ccf_system_from_eigenvalues has all super-diagonal entries (row i,
\* column i+1) equal to 1.
C10_SuperDiagonalOnes ==
    pc = "ccf" =>
        /\ NRows(a_matrix) = Len(eigvals)
        /\ \A i \in 1 .. Len(eigvals) - 1 : a_matrix[i][i + 1] = 1

\* a canonical form of three states, which has two super-diagonal entries
C10_Witness ==
    /\ pc = "ccf"
    /\ Len(eigvals) = 3
    /\ NRows(a_matrix) = 3

\* C11: for every non-empty eigenvalue list of length m the input matrix
\* returned by make_ccf_system_from_eigenvalues is the m x 1 standard basis
\* vector of the last coordinate: entry m - 1 is 1, every other entry is 0.
C11_CcfInputSelectsLastState ==
    pc = "ccf" =>
        /\ b_den = 1
        /\ b_matrix.nd = 2
        /\ NRows(b_matrix.v) = Len(eigvals)
        /\ \A r \in 1 .. Len(eigvals) :
              b_matrix.v[r] = <<IF r = Len(eigvals) THEN 1 ELSE 0>>

\* the input matrix of a canonical form of three states
C11_Witness ==
    /\ pc = "ccf"
    /\ Len(eigvals) = 3
    /\ b_matrix.v = <<<<0>>, <<0>>, <<1>>>>

-----------------------------------------------------------------------------
(* Properties of transform_state_trace.                                    *)

\* C12: for every state sequence X with rows of dimension n and every
\* explicitly supplied n x n matrix M, singular or not, transform_state_trace
\* returns without error a sequence of the same length whose i-th state is
\* M X[i], M multiplying the state as a column vector from the left.
C12_TransformLeftMultiplies ==
    (pc = "transformed" /\ transformation_matrix.given) =>
        /\ ~transformed_state_trace.raised
        /\ transformed_state_trace.den = state_trace.den
        /\ Len(transformed_state_trace.rows) = Len(state_trace.rows)
        /\ \A i \in 1 .. Len(state_trace.rows) :
              transformed_state_trace.rows[i] =
                 MatVec(transformation_matrix.v, state_trace.rows[i])

\* a trajectory of three or more states, not all zero, has been transformed
\* by a singular matrix
C12_Witness ==
    /\ pc = "transformed"
    /\ transformation_matrix.given
    /\ NRows(transformation_matrix.v) = 2
    /\ Det(transformation_matrix.v) = 0
    /\ Len(state_trace.rows) >= 3
    /\ \E i \in 1 .. Len(state_trace.rows) :
          transformed_state_trace.rows[i] # <<0, 0>>

-----------------------------------------------------------------------------
(* Properties of the eigenvalue lists of make_random_system.               *)

\* C13: in make_random_system, with r = n_states minus the mandatory count
\* and r > 0, the number of randomly drawn real eigenvalues is 1 when r is
\* odd and 0 when r is even, the number of randomly drawn conjugate pairs is
\* floor(r / 2), and mandatory count + random reals + 2 * random pairs
\* equals n_states.
C13_RandomCountsFillTheSystem ==
    pc \in {"system_made", "linalg_error"} =>
        LET r == rs_args.n_states - MandatoryCount(rs_args) IN
        /\ r > 0
        /\ Len(z_random.real) = (IF r % 2 = 1 THEN 1 ELSE 0)
        /\ \E q \in 0 .. r : /\ 2 * q <= r
                             /\ r < 2 * q + 2
                             /\ Len(z_random.complex) = q
        /\ MandatoryCount(rs_args) + Len(z_random.real)
              + 2 * Len(z_random.complex) = rs_args.n_states

\* three eigenvalues to draw beside no mandatory one: a real and a pair
C13_Witness ==
    /\ pc = "system_made"
    /\ rs_args.n_states - MandatoryCount(rs_args) = 3
    /\ Len(z_random.real) = 1
    /\ Len(z_random.complex) = 1

\* the number of positions of the list zs that hold z
CountOf(zs, z) == Cardinality({k \in 1 .. Len(zs) : zs[k] = z})

\* C14: when make_random_system is called with ccf=True, the root list it
\* hands to make_ccf_system_from_eigenvalues and roots2coeffs is the full
\* eigenvalue list: it has n_states entries and is closed under complex
\* conjugation (every complex eigenvalue, random or mandatory, appears
\* together with its conjugate), so that the coefficients are real before
\* the real part is taken.
C14_CcfRootListIsFull ==
    (pc = "system_made" /\ rs_args.ccf) =>
        /\ Len(eigvals) = rs_args.n_states
        /\ \A k \in 1 .. Len(eigvals) :
              CountOf(eigvals, CConj(eigvals[k])) = CountOf(eigvals, eigvals[k])
        /\ \A k \in 1 .. Len(coeffs) : CImag(coeffs[k]) = 0

-----------------------------------------------------------------------------
(* Properties of the canonical form on real roots.                         *)

AllReal(zs) == \A k \in 1 .. Len(zs) : CImag(zs[k]) = 0

\* (1, r, r^2, ..., r^(m-1))
PowerVector(r, m) == [j \in 1 .. m |-> IntPow(r, j - 1)]

\* C15: for every non-empty list of real roots r_1 .. r_m with coefficients
\* [a_1 .. a_m] = roots2coeffs(roots), the matrix A returned by
\* make_ccf_system_from_eigenvalues has the last row [-a_m, ..., -a_2, -a_1]
\* and every root r is an eigenvalue of A: A v = r v for the nonzero vector
\* v = (1, r, r^2, ..., r^(m-1)).
C15_LastRowAndEigenvectors ==
    (pc = "ccf" /\ AllReal(eigvals)) =>
        LET m == Len(eigvals) IN
        /\ a_den = 1
        /\ Len(a_matrix[m]) = m
        /\ \A c \in 1 .. m : a_matrix[m][c] = -CReal(coeffs[m - c + 1])
        /\ \A k \in 1 .. m :
              LET r == CReal(eigvals[k])
                  v == PowerVector(r, m)
              IN  MatVec(a_matrix, v) = [j \in 1 .. m |-> r * v[j]]

\* the canonical form of three distinct real roots
C15_Witness ==
    /\ pc = "ccf"
    /\ eigvals = <<Cx(2, 0), Cx(3, 0), Cx(-1, 0)>>
    /\ a_matrix[3] = <<-6, -1, 4>>

-----------------------------------------------------------------------------
(* roots2coeffs against the product of the monomial factors.               *)

\* poly * (s - r), polynomials being their coefficients from the leading one
TimesMonomial(poly, r) ==
    [k \in 1 .. Len(poly) + 1 |->
        CAdd(IF k <= Len(poly) THEN poly[k] ELSE Cx(0, 0),
             IF k >= 2 THEN CScale(-1, CMul(r, poly[k - 1])) ELSE Cx(0, 0))]

\* (s - roots[1]) ... (s - roots[n]), from the polynomial 1, a root at a time
RECURSIVE MonomialProduct(_)
MonomialProduct(roots) ==
    IF roots = <<>> THEN <<Cx(1, 0)>>
    ELSE TimesMonomial(MonomialProduct(SubSeq(roots, 1, Len(roots) - 1)),
                       roots[Len(roots)])

\* the orders of the positions 1 .. n
Orders(n) == {f \in [1 .. n -> 1 .. n] : \A i, j \in 1 .. n : f[i] = f[j] => i = j}

\* C16: for every root list over a bounded set of real or Gaussian-integer
\* roots, the coefficients roots2coeffs returns by subset enumeration are the
\* non-leading coefficients of the polynomial obtained from 1 by multiplying
\* by the monomial factors (s - r_i) one root at a time, in any order of the
\* roots.
C16_SubsetsEqualMonomialProduct ==
    pc = "coeffs" =>
        \A f \in Orders(Len(eigvals)) :
            coeffs = Tail(MonomialProduct([k \in 1 .. Len(eigvals) |-> eigvals[f[k]]]))

\* roots2coeffs has run on three distinct roots, two of them not real:
\* (s - 1 - 2i)(s - i)(s - 2) = s^3 - (3 + 3i) s^2 + 7i s + 4 - 2i
C16_Witness ==
    /\ pc = "coeffs"
    /\ eigvals = <<Cx(1, 2), Cx(0, 1), Cx(2, 0)>>
    /\ coeffs = <<Cx(-3, -3), Cx(0, 7), Cx(4, -2)>>

-----------------------------------------------------------------------------
(* The convention of the matrices identify_system returns.                 *)

\* x @ M for a 1-D x and a 2-D M with c columns
VecMat(x, M, c) == [j \in 1 .. c |-> SumSeq([k \in 1 .. Len(x) |-> x[k] * M[k][j]])]

=============================================================================
